---- MODULE Spec2Model ----
(***************************************************************************)
(* Model of the Recipe API backend (backend/controllers/recipeController.js)*)
(* the listing endpoint getRecipes, the search endpoint searchRecipes and   *)
(* the helper parseComparisonQuery, together with the behaviour of the      *)
(* record store (MongoDB through Mongoose) that the controller relies on.   *)
(*                                                                         *)
(* Text is modelled as a sequence of one-character strings, so that prefix  *)
(* tests, substring search, regular-expression matching and number parsing  *)
(* are computed character by character as the JavaScript code does.         *)
(* A JavaScript number is a record [k, n, d]: k = "num" stands for the      *)
(* decimal n / 10^d (kept normalised), k = "nan" for NaN, k = "null" for    *)
(* null/absent, k = "inf" for +-Infinity (sign in n).                       *)
(***************************************************************************)
EXTENDS Integers, Sequences, FiniteSets, TLC

(***************************************************************************)
(* Numbers                                                                 *)
(***************************************************************************)
RECURSIVE Pow10(_)
Pow10(d) == IF d = 0 THEN 1 ELSE 10 * Pow10(d - 1)

RECURSIVE Norm(_, _)
Norm(n, d) ==
  IF n = 0 THEN [k |-> "num", n |-> 0, d |-> 0]
  ELSE IF d > 0 /\ n % 10 = 0 THEN Norm(n \div 10, d - 1)
  ELSE [k |-> "num", n |-> n, d |-> d]

Int2Num(i) == [k |-> "num", n |-> i, d |-> 0]
NaN == [k |-> "nan", n |-> 0, d |-> 0]
Null == [k |-> "null", n |-> 0, d |-> 0]
PosInfinity == [k |-> "inf", n |-> 1, d |-> 0]
NegInfinity == [k |-> "inf", n |-> -1, d |-> 0]

IsNum(x) == x.k = "num"

\* Math.min, Math.max on integers
Min(a, b) == IF a < b THEN a ELSE b
Max(a, b) == IF a > b THEN a ELSE b
IsInteger(x) == x.k = "num" /\ x.d = 0

\* a < b, a <= b on finite numbers (cross-multiplied to a common scale)
NumLT(a, b) == a.n * Pow10(b.d) < b.n * Pow10(a.d)
NumLE(a, b) == a.n * Pow10(b.d) <= b.n * Pow10(a.d)
NumEQ(a, b) == a.n * Pow10(b.d) = b.n * Pow10(a.d)

\* JavaScript a - b and a * b (NaN is contagious; finite operands otherwise)
NumSub(a, b) ==
  IF ~IsNum(a) \/ ~IsNum(b) THEN NaN
  ELSE LET m == IF a.d > b.d THEN a.d ELSE b.d
       IN Norm(a.n * Pow10(m - a.d) - b.n * Pow10(m - b.d), m)

NumMul(a, b) ==
  IF ~IsNum(a) \/ ~IsNum(b) THEN NaN
  ELSE Norm(a.n * b.n, a.d + b.d)

\* integer ceiling of p / q for q > 0
CeilDiv(p, q) == IF p >= 0 THEN (p + q - 1) \div q ELSE -((-p) \div q)

\* Math.ceil(total / limit) for an integer total >= 0
CeilQuot(total, limit) ==
  IF ~IsNum(limit) THEN NaN
  ELSE IF limit.n = 0 THEN (IF total = 0 THEN NaN ELSE PosInfinity)
  ELSE IF limit.n > 0 THEN Int2Num(CeilDiv(total * Pow10(limit.d), limit.n))
  ELSE Int2Num(-((total * Pow10(limit.d)) \div (-limit.n)))

(***************************************************************************)
(* Text                                                                    *)
(***************************************************************************)
Digits == {"0", "1", "2", "3", "4", "5", "6", "7", "8", "9"}

DigitVal(c) ==
  CASE c = "0" -> 0 [] c = "1" -> 1 [] c = "2" -> 2 [] c = "3" -> 3
    [] c = "4" -> 4 [] c = "5" -> 5 [] c = "6" -> 6 [] c = "7" -> 7
    [] c = "8" -> 8 [] c = "9" -> 9

UpperLetters == <<"A", "B", "C", "D", "E", "F", "G", "H", "I", "J", "K", "L", "M",
                  "N", "O", "P", "Q", "R", "S", "T", "U", "V", "W", "X", "Y", "Z">>
LowerLetters == <<"a", "b", "c", "d", "e", "f", "g", "h", "i", "j", "k", "l", "m",
                  "n", "o", "p", "q", "r", "s", "t", "u", "v", "w", "x", "y", "z">>

\* case folding of one character (the 'i' flag)
Lower(c) ==
  IF \E i \in 1..26 : UpperLetters[i] = c
  THEN LowerLetters[CHOOSE i \in 1..26 : UpperLetters[i] = c]
  ELSE c

\* String.prototype.startsWith
StartsWith(s, p) == Len(s) >= Len(p) /\ SubSeq(s, 1, Len(p)) = p

\* String.prototype.substring(i) (0-based start)
Substring(s, i) == SubSeq(s, i + 1, Len(s))

\* number of leading decimal digits of s
RECURSIVE DigitRun(_)
DigitRun(s) ==
  IF s = <<>> \/ Head(s) \notin Digits THEN 0 ELSE 1 + DigitRun(Tail(s))

\* value of a sequence of decimal digits
RECURSIVE DigitsValue(_)
DigitsValue(s) ==
  IF s = <<>> THEN 0
  ELSE DigitsValue(SubSeq(s, 1, Len(s) - 1)) * 10 + DigitVal(s[Len(s)])

RECURSIVE TrimStart(_)
TrimStart(s) == IF s # <<>> /\ Head(s) = " " THEN TrimStart(Tail(s)) ELSE s

RECURSIVE TrimEnd(_)
TrimEnd(s) ==
  IF s # <<>> /\ s[Len(s)] = " " THEN TrimEnd(SubSeq(s, 1, Len(s) - 1)) ELSE s

Trim(s) == TrimEnd(TrimStart(s))

\* the decimal literal at the front of u (sign already removed):
\* ni integer digits, an optional "." and nf fraction digits
DecimalPrefix(u) ==
  LET ni == DigitRun(u)
      rest == SubSeq(u, ni + 1, Len(u))
      hasDot == rest # <<>> /\ Head(rest) = "."
      nf == IF hasDot THEN DigitRun(Tail(rest)) ELSE 0
      used == IF hasDot /\ (ni > 0 \/ nf > 0) THEN ni + 1 + nf ELSE ni
  IN [ni |-> ni, nf |-> nf, used |-> used,
      val |-> DigitsValue(SubSeq(u, 1, ni)) * Pow10(nf)
              + DigitsValue(SubSeq(u, ni + 2, ni + 1 + nf))]

HasSign(t) == t # <<>> /\ Head(t) \in {"+", "-"}
SignOf(t) == IF t # <<>> /\ Head(t) = "-" THEN -1 ELSE 1

\* JavaScript parseFloat on text without exponent or Infinity literals:
\* skips leading blanks, reads the longest decimal prefix, NaN if none
parseFloat(s) ==
  LET t == TrimStart(s)
      u == IF HasSign(t) THEN Tail(t) ELSE t
      p == DecimalPrefix(u)
  IN IF p.ni = 0 /\ p.nf = 0 THEN NaN ELSE Norm(SignOf(t) * p.val, p.nf)

\* JavaScript parseInt (radix 10) on text: leading blanks, sign, digit prefix
parseIntStr(s) ==
  LET t == TrimStart(s)
      u == IF HasSign(t) THEN Tail(t) ELSE t
      ni == DigitRun(u)
  IN IF ni = 0 THEN NaN ELSE Int2Num(SignOf(t) * DigitsValue(SubSeq(u, 1, ni)))

\* JavaScript ToNumber on text: the whole trimmed text must be a decimal
\* literal or Infinity, the empty text is 0
ToNumberStr(s) ==
  LET t == Trim(s)
      u == IF HasSign(t) THEN Tail(t) ELSE t
      p == DecimalPrefix(u)
  IN IF t = <<>> THEN Int2Num(0)
     ELSE IF u = <<"I", "n", "f", "i", "n", "i", "t", "y">>
     THEN (IF SignOf(t) = 1 THEN PosInfinity ELSE NegInfinity)
     ELSE IF (p.ni = 0 /\ p.nf = 0) \/ p.used # Len(u) THEN NaN
     ELSE Norm(SignOf(t) * p.val, p.nf)

(***************************************************************************)
(* Request parameters and the comparison parser                            *)
(***************************************************************************)
\* a query-string parameter: absent (undefined) or a text
Absent == [present |-> FALSE, s |-> <<>>]
Txt(s) == [present |-> TRUE, s |-> s]

\* JavaScript truthiness of a parameter: undefined and "" are falsy
TruthyParam(p) == p.present /\ p.s # <<>>

\* results of parseComparisonQuery: null, an operator object or a bare number
PNull == [op |-> "null", v |-> Null]
POp(op, v) == [op |-> op, v |-> v]
PNum(v) == [op |-> "num", v |-> v]
Unset == [op |-> "unset", v |-> Null]

parseComparisonQueryPrefixSwapped(value) ==
  IF ~TruthyParam(value) THEN PNull
  ELSE IF StartsWith(value.s, <<">">>) THEN POp("$gt", parseFloat(Substring(value.s, 1)))
  ELSE IF StartsWith(value.s, <<"<">>) THEN POp("$lt", parseFloat(Substring(value.s, 1)))
  ELSE IF StartsWith(value.s, <<">", "=">>) THEN POp("$gte", parseFloat(Substring(value.s, 2)))
  ELSE IF StartsWith(value.s, <<"<", "=">>) THEN POp("$lte", parseFloat(Substring(value.s, 2)))
  ELSE IF StartsWith(value.s, <<"=", "=">>) THEN PNum(parseFloat(Substring(value.s, 2)))
  ELSE PNum(parseFloat(value.s))

parseComparisonQuery(value) ==
  IF ~TruthyParam(value) THEN PNull
  ELSE IF StartsWith(value.s, <<">", "=">>) THEN POp("$gte", parseFloat(Substring(value.s, 2)))
  ELSE IF StartsWith(value.s, <<"<", "=">>) THEN POp("$lte", parseFloat(Substring(value.s, 2)))
  ELSE IF StartsWith(value.s, <<">">>) THEN POp("$gt", parseFloat(Substring(value.s, 1)))
  ELSE IF StartsWith(value.s, <<"<">>) THEN POp("$lt", parseFloat(Substring(value.s, 1)))
  ELSE IF StartsWith(value.s, <<"=", "=">>) THEN PNum(parseFloat(Substring(value.s, 2)))
  ELSE PNum(parseFloat(value.s))

\* JavaScript truthiness of a parse result: null, NaN and 0 are falsy,
\* every object is truthy
TruthyParsed(pq) ==
  \/ pq.op \in {"$gte", "$lte", "$gt", "$lt"}
  \/ pq.op = "num" /\ IsNum(pq.v) /\ pq.v.n # 0

(***************************************************************************)
(* Regular expressions: new RegExp(text, 'i')                              *)
(* The pattern alphabet of the model holds literal characters, "." (any    *)
(* character) and the group brackets; a pattern with brackets is only      *)
(* checked for balance (the constructor throws on an unbalanced one).      *)
(***************************************************************************)
RECURSIVE ParenDepthOK(_, _)
ParenDepthOK(p, depth) ==
  IF p = <<>> THEN depth = 0
  ELSE IF Head(p) = "(" THEN ParenDepthOK(Tail(p), depth + 1)
  ELSE IF Head(p) = ")" THEN depth > 0 /\ ParenDepthOK(Tail(p), depth - 1)
  ELSE ParenDepthOK(Tail(p), depth)

\* new RegExp(p, 'i') throws a SyntaxError
RegExpThrows(p) == ~ParenDepthOK(p, 0)

\* one pattern character against one subject character, ignoring case
RegExpChar(pc_, c) == pc_ = "." \/ Lower(pc_) = Lower(c)

\* the (unanchored) pattern p matches somewhere in s
RegExpTest(p, s) ==
  \E i \in 1..(Len(s) - Len(p) + 1) :
    \A j \in 1..Len(p) : RegExpChar(p[j], s[i + j - 1])

(***************************************************************************)
(* Composite filter (searchRecipes, the synchronous part)                  *)
(***************************************************************************)
\* query.cuisine / query.title: unset or a compiled pattern
NoRx == [set |-> FALSE, p |-> <<>>]
Rx(p) == [set |-> TRUE, p |-> p]

\* if (param) { const q = parseComparisonQuery(param); if (q) query.f = q }
NumericFilter(param) ==
  IF TruthyParam(param) /\ TruthyParsed(parseComparisonQuery(param))
  THEN parseComparisonQuery(param) ELSE Unset

BuildThrows(r) ==
  \/ TruthyParam(r.cuisine) /\ RegExpThrows(r.cuisine.s)
  \/ TruthyParam(r.title) /\ RegExpThrows(r.title.s)

BuildQuery(r) ==
  [cuisine    |-> IF TruthyParam(r.cuisine) THEN Rx(r.cuisine.s) ELSE NoRx,
   title      |-> IF TruthyParam(r.title) THEN Rx(r.title.s) ELSE NoRx,
   total_time |-> NumericFilter(r.total_time),
   rating     |-> NumericFilter(r.rating)]

\* the calories predicate, set exactly when the aggregation branch is taken
CaloriesQuery(r) == NumericFilter(r.calories)
UsesAggregation(r) == CaloriesQuery(r).op # "unset"

(***************************************************************************)
(* The record store                                                        *)
(* A record is [id, title, cuisine, rating, total_time, calories]; title,  *)
(* cuisine and calories (nutrients.calories) are optional texts, rating    *)
(* and total_time are finite numbers or Null.                              *)
(***************************************************************************)
Rec(id, title, cuisine, rating, total_time, calories) ==
  [id |-> id, title |-> title, cuisine |-> cuisine, rating |-> rating,
   total_time |-> total_time, calories |-> calories]

\* { field: { $regex: /p/i } }: an absent text never matches
MatchText(rx, field) ==
  ~rx.set \/ (field.present /\ RegExpTest(rx.p, field.s))

\* { field: pq } for a stored number or null: comparison operators and
\* equality match numbers only, and nothing compares true with NaN
MatchCmp(pq, v) ==
  CASE pq.op = "unset" -> TRUE
    [] pq.op # "unset" /\ (~IsNum(v) \/ ~IsNum(pq.v)) -> FALSE
    [] OTHER ->
         CASE pq.op = "$gte" -> NumLE(pq.v, v)
           [] pq.op = "$lte" -> NumLE(v, pq.v)
           [] pq.op = "$gt" -> NumLT(pq.v, v)
           [] pq.op = "$lt" -> NumLT(v, pq.v)
           [] pq.op = "num" -> NumEQ(v, pq.v)

\* the composite filter on one record
MatchQuery(q, r) ==
  /\ MatchText(q.cuisine, r.cuisine)
  /\ MatchText(q.title, r.title)
  /\ MatchCmp(q.total_time, r.total_time)
  /\ MatchCmp(q.rating, r.rating)

\* Mongoose casts the filter of find/countDocuments against the schema:
\* a NaN operand on a Number path cannot be cast
HasNaNOperand(q) ==
  \/ q.total_time.op # "unset" /\ ~IsNum(q.total_time.v)
  \/ q.rating.op # "unset" /\ ~IsNum(q.rating.v)

RangeOf(seq) == {seq[i] : i \in 1..Len(seq)}

\* records of the store matching the composite filter
Matching(st, q) == {r \in RangeOf(st) : MatchQuery(q, r)}

\* $replaceAll { input: s, find: f, replacement: '' }
RECURSIVE ReplaceAllEmpty(_, _)
ReplaceAllEmpty(s, f) ==
  IF s = <<>> THEN <<>>
  ELSE IF StartsWith(s, f) THEN ReplaceAllEmpty(Substring(s, Len(f)), f)
  ELSE <<Head(s)>> \o ReplaceAllEmpty(Tail(s), f)

Kcal == <<" ", "k", "c", "a", "l">>

CaloriesTextTagKept(r) ==
  Trim(IF r.calories.present THEN r.calories.s ELSE <<"0">>)

\* the text handed to $toDouble for one record
CaloriesText(r) ==
  Trim(ReplaceAllEmpty(IF r.calories.present THEN r.calories.s ELSE <<"0">>, Kcal))

\* $toDouble on a text: the whole text must be a decimal literal
ToDoubleFails(s) ==
  LET u == IF HasSign(s) THEN Tail(s) ELSE s
      p == DecimalPrefix(u)
  IN (p.ni = 0 /\ p.nf = 0) \/ p.used # Len(u)

ToDouble(s) ==
  LET u == IF HasSign(s) THEN Tail(s) ELSE s
      p == DecimalPrefix(u)
  IN Norm(SignOf(s) * p.val, p.nf)

CaloriesValueNoDefault(r) ==
  IF r.calories.present THEN ToDouble(CaloriesText(r)) ELSE Null

\* $addFields caloriesValue
CaloriesValue(r) == ToDouble(CaloriesText(r))

\* the aggregation pipeline fails when the conversion fails on a record
\* that passed the first $match
PipelineFails(st, q) ==
  \E r \in Matching(st, q) : ToDoubleFails(CaloriesText(r))

\* { $addFields: { caloriesValue: ... } }: the record with the derived field
AddFields(r) ==
  [f \in DOMAIN r \cup {"caloriesValue"} |->
     IF f = "caloriesValue" THEN CaloriesValue(r) ELSE r[f]]

ProjectNothing(x) == x

\* { $project: { caloriesValue: 0 } }: the record without the derived field
Project(x) == [f \in DOMAIN x \ {"caloriesValue"} |-> x[f]]

AggregatedIgnoringQuery(st, q, cq) ==
  {Project(x) : x \in {y \in {AddFields(r) : r \in RangeOf(st)} :
                         MatchCmp(cq, y.caloriesValue)}}

\* $match query, $addFields, $match caloriesValue, $project
Aggregated(st, q, cq) ==
  {Project(x) : x \in {y \in {AddFields(r) : r \in Matching(st, q)} :
                         MatchCmp(cq, y.caloriesValue)}}

RatingGENullFirst(a, b) ==
  \/ ~IsNum(a.rating)
  \/ IsNum(b.rating) /\ NumLE(b.rating, a.rating)

\* sort { rating: -1 }: a before-or-level-with b; null sorts below numbers
RatingGE(a, b) ==
  \/ ~IsNum(b.rating)
  \/ IsNum(a.rating) /\ NumLE(b.rating, a.rating)

\* every order in which the store may hand out the records of a set under
\* sort { rating: -1 }: records of equal rating come in any relative order
SortedOrders(recs) ==
  LET n == Cardinality(recs)
  IN {f \in [1..n -> recs] :
        /\ \A i, j \in 1..n : i # j => f[i] # f[j]
        /\ \A i, j \in 1..n : i < j => RatingGE(f[i], f[j])}

WindowClamped(seq, k, l) ==
  IF k >= Len(seq) /\ Len(seq) > 0
  THEN SubSeq(seq, IF Len(seq) > l THEN Len(seq) - l + 1 ELSE 1, Len(seq))
  ELSE SubSeq(seq, k + 1, IF k + l < Len(seq) THEN k + l ELSE Len(seq))

\* skip(k).limit(l) on an ordered result, for integers k >= 0, l >= 1
Window(seq, k, l) ==
  SubSeq(seq, k + 1, IF k + l < Len(seq) THEN k + l ELSE Len(seq))

(***************************************************************************)
(* Paging parameters                                                       *)
(***************************************************************************)
DefaultPage == 1
DefaultListLimit == 10
DefaultSearchLimit == 15

\* getRecipes: parseInt(req.query.x) || dflt  (NaN and 0 are falsy)
ListParam(p, dflt) ==
  LET v == IF p.present THEN parseIntStr(p.s) ELSE NaN
  IN IF IsNum(v) /\ v.n # 0 THEN v ELSE Int2Num(dflt)

ListPage(r) == ListParam(r.page, DefaultPage)
ListLimit(r) == ListParam(r.limit, DefaultListLimit)
ListSkip(r) == NumMul(NumSub(ListPage(r), Int2Num(1)), ListLimit(r))

\* searchRecipes: the destructuring default applies to undefined only; the
\* value stays a text and is converted where it is used
AsNumber(p, dflt) == IF p.present THEN ToNumberStr(p.s) ELSE Int2Num(dflt)
AsParsedInt(p, dflt) == IF p.present THEN parseIntStr(p.s) ELSE Int2Num(dflt)

\* (page - 1) * limit
SearchSkip(r) ==
  NumMul(NumSub(AsNumber(r.page, DefaultPage), Int2Num(1)),
         AsNumber(r.limit, DefaultSearchLimit))
\* parseInt(limit), parseInt(page)
SearchLimit(r) == AsParsedInt(r.limit, DefaultSearchLimit)
SearchPage(r) == AsParsedInt(r.page, DefaultPage)
\* Math.ceil(total / limit)
SearchTotalPages(t, r) == CeilQuot(t, AsNumber(r.limit, DefaultSearchLimit))

\* the store rejects a skip that is not a non-negative integer
SkipRejected(k) == ~(IsInteger(k) /\ k.n >= 0)
\* find().limit(l): NaN is rejected, 0 means no limit, -l is taken as l
FindLimitRejected(l) == ~IsNum(l)
FindLimitIgnored(l, len) == len
FindLimit(l, len) == IF l.n = 0 THEN len ELSE IF l.n < 0 THEN -l.n ELSE l.n
\* { $limit: l } must be a positive integer
AggLimitRejected(l) == ~(IsInteger(l) /\ l.n >= 1)

(***************************************************************************)
(* Responses                                                               *)
(***************************************************************************)
\* `from` names the endpoint whose handler sent the response
NoResp ==
  [from |-> "", status |-> 0, success |-> FALSE, hasData |-> FALSE, count |-> 0, total |-> 0,
   page |-> Null, totalPages |-> Null, data |-> <<>>, message |-> "", error |-> ""]

OkTotalIsCount(data, t, page, totalPages) ==
  [from |-> "", status |-> 200, success |-> TRUE, hasData |-> TRUE, count |-> Len(data),
   total |-> Len(data), page |-> page, totalPages |-> totalPages, data |-> data,
   message |-> "", error |-> ""]

\* res.json({ success: true, count, total, page, totalPages, data })
Ok(data, t, page, totalPages) ==
  [from |-> "", status |-> 200, success |-> TRUE, hasData |-> TRUE, count |-> Len(data),
   total |-> t, page |-> page, totalPages |-> totalPages, data |-> data,
   message |-> "", error |-> ""]

ErrWithoutStatus(e) ==
  [from |-> "", status |-> 200, success |-> FALSE, hasData |-> FALSE, count |-> 0,
   total |-> 0, page |-> Null, totalPages |-> Null, data |-> <<>>,
   message |-> "Server Error", error |-> e]

\* res.status(500).json({ success: false, message: 'Server Error', error })
Err(e) ==
  [from |-> "", status |-> 500, success |-> FALSE, hasData |-> FALSE, count |-> 0, total |-> 0,
   page |-> Null, totalPages |-> Null, data |-> <<>>,
   message |-> "Server Error", error |-> e]

(***************************************************************************)
(* Store contents and request inputs of the model                          *)
(***************************************************************************)
\* A, B, C of the combined-filter scenario
StoreScenario ==
  <<Rec(1, Txt(<<"A", "p", "p", "l", "e", " ", "P", "i", "e">>), Txt(<<"I", "t", "a", "l", "i", "a", "n">>), Norm(48, 1), Int2Num(35), Txt(<<"3", "8", "0", " ", "k", "c", "a", "l">>)),
    Rec(2, Txt(<<"C", "a", "k", "e">>), Txt(<<"F", "r", "e", "n", "c", "h">>), Norm(42, 1), Int2Num(50), Txt(<<"6", "0", "0", " ", "k", "c", "a", "l">>)),
    Rec(3, Txt(<<"P", "I", "E", " ", "n", "i", "g", "h", "t">>), Txt(<<"I", "t", "a", "l", "i", "a", "n">>), Norm(49, 1), Int2Num(20), Absent)>>

\* equal ratings, absent ratings and zero values
StoreTies ==
  <<Rec(1, Txt(<<"s", "h", "e", "p", "h", "e", "r", "d", "'", "s", " ", "p", "i", "e">>), Txt(<<"B", "r", "i", "t", "i", "s", "h">>), Norm(45, 1), Int2Num(40), Txt(<<"4", "0", "0", " ", "k", "c", "a", "l">>)),
    Rec(2, Txt(<<"P", "i", "e">>), Txt(<<"I", "t", "a", "l", "i", "a", "n">>), Norm(45, 1), Int2Num(0), Txt(<<"0", " ", "k", "c", "a", "l">>)),
    Rec(3, Txt(<<"C", "a", "k", "e">>), Txt(<<"F", "r", "e", "n", "c", "h">>), Null, Null, Absent),
    Rec(4, Txt(<<"T", "a", "r", "t">>), Txt(<<"F", "r", "e", "n", "c", "h">>), Int2Num(0), Int2Num(30), Txt(<<"2", "5", "0", " ", "k", "c", "a", "l">>))>>

\* a calorie entry that is not a number
StoreOdd ==
  <<Rec(1, Txt(<<"P", "i", "e">>), Txt(<<"I", "t", "a", "l", "i", "a", "n">>), Norm(45, 1), Int2Num(30), Txt(<<"n", "o", "n", "e">>)),
    Rec(2, Txt(<<"C", "a", "k", "e">>), Txt(<<"F", "r", "e", "n", "c", "h">>), Norm(45, 1), Int2Num(45), Txt(<<"9", "0", " ", "k", "c", "a", "l">>))>>

Stores == {StoreScenario, StoreTies, StoreOdd}

TitleInputs == {Absent, Txt(<<"p", "i", "e">>), Txt(<<"p", ".", "e">>), Txt(<<"(">>)}
CuisineInputs == {Absent, Txt(<<"i", "t", "a", "l">>)}
RatingInputs ==
  {Absent, Txt(<<">", "=", "4", ".", "5">>), Txt(<<"0">>), Txt(<<">", "=", "a">>), Txt(<<"a">>), Txt(<<"=", "=", "4", ".", "5">>)}
TotalTimeInputs == {Absent, Txt(<<"<", "=", "4", "0">>), Txt(<<"0">>)}
CaloriesInputs == {Absent, Txt(<<"<", "=", "4", "0", "0">>), Txt(<<"0">>)}
PageInputs == {Absent, Txt(<<"1">>), Txt(<<"2">>), Txt(<<"a">>)}
LimitInputs == {Absent, Txt(<<"1">>), Txt(<<"2">>), Txt(<<"a">>), Txt(<<"1", ".", "5">>)}

SearchRequests ==
  [endpoint : {"search"}, title : TitleInputs, cuisine : CuisineInputs,
   rating : RatingInputs, total_time : TotalTimeInputs,
   calories : CaloriesInputs, page : PageInputs, limit : LimitInputs]

ListRequests ==
  [endpoint : {"list"}, title : {Absent}, cuisine : {Absent}, rating : {Absent},
   total_time : {Absent}, calories : {Absent}, page : PageInputs,
   limit : LimitInputs]

NoReq ==
  [endpoint |-> "none", title |-> Absent, cuisine |-> Absent, rating |-> Absent,
   total_time |-> Absent, calories |-> Absent, page |-> Absent, limit |-> Absent]

(***************************************************************************)
(* The import script: raw JSON values and their sanitisation               *)
(***************************************************************************)
\* a value of the parsed JSON file (undefined: the key is missing)
RawUndefined == [t |-> "undefined", num |-> Null, s |-> <<>>, b |-> FALSE]
RawNull == [t |-> "null", num |-> Null, s |-> <<>>, b |-> FALSE]
RawNumber(x) == [t |-> "number", num |-> x, s |-> <<>>, b |-> FALSE]
RawString(s) == [t |-> "string", num |-> Null, s |-> s, b |-> FALSE]
RawBoolean(b) == [t |-> "boolean", num |-> Null, s |-> <<>>, b |-> b]

NaNText == <<"N", "a", "N">>

\* isNaNValue: 'NaN', a NaN number, null, undefined
isNaNValue(value) ==
  \/ value = RawString(NaNText)
  \/ value.t = "number" /\ value.num = NaN
  \/ value.t = "null"
  \/ value.t = "undefined"

\* JavaScript Number(value)
Number(value) ==
  CASE value.t = "number" -> value.num
    [] value.t = "string" -> ToNumberStr(value.s)
    [] value.t = "boolean" -> Int2Num(IF value.b THEN 1 ELSE 0)
    [] value.t = "null" -> Int2Num(0)
    [] value.t = "undefined" -> NaN

\* sanitizeNumericField: null for the NaN values, else Number(value), null
\* when that is NaN
sanitizeNumericField(value) ==
  IF isNaNValue(value) THEN Null
  ELSE LET num == Number(value)
       IN IF num = NaN THEN Null ELSE num

\* JavaScript truthiness of a raw value
TruthyRaw(value) ==
  CASE value.t = "number" -> value.num # NaN /\ value.num # Int2Num(0)
    [] value.t = "string" -> value.s # <<>>
    [] value.t = "boolean" -> value.b
    [] OTHER -> FALSE

\* value || null
OrNull(value) == IF TruthyRaw(value) THEN value ELSE RawNull

\* processRecipeData; key is the key of the recipe in the file
processRecipeData(recipe) ==
  [key |-> recipe.key,
   title |-> OrNull(recipe.title),
   rating |-> sanitizeNumericField(recipe.rating),
   total_time |-> sanitizeNumericField(recipe.total_time)]

SanIdle == [in |-> RawUndefined, out |-> Unset.v, done |-> FALSE]
\* the import script before it runs: the parsed file, the processed and the
\* valid recipes, the loop index, the collection and the batches inserted
ImpIdle ==
  [pc |-> "idle", file |-> <<>>, recipes |-> <<>>, validRecipes |-> <<>>,
   i |-> 0, db |-> <<>>, batches |-> <<>>]
\* a fetch of the web client: recipeAPI.getAllRecipes(page, limit) or
\* recipeAPI.searchRecipes(filters, page, limit); filters "none" is {}
NoFetch == [kind |-> "none", filters |-> "none", page |-> 0, limit |-> 0]
ListFetch(page, limit) ==
  [kind |-> "list", filters |-> "none", page |-> page, limit |-> limit]
SearchFetch(filters, page, limit) ==
  [kind |-> "search", filters |-> filters, page |-> page, limit |-> limit]

\* App before it is mounted: its state (useState initial values), the fetch
\* whose response is on display, the fetches in flight, and what the last
\* user action was and which fetches it issued
UiIdle ==
  [pc |-> "idle", currentPage |-> 1, itemsPerPage |-> 15, isSearching |-> FALSE,
   activeFilters |-> "none", shown |-> NoFetch, pending |-> <<>>, error |-> FALSE,
   last |-> "none", changed |-> FALSE, issued |-> <<>>]
\* the pagination bar: its props, the page buttons computed from them and
\* the page last handed to onPageChange (0: none)
PgnIdle ==
  [pc |-> "idle", currentPage |-> 1, totalPages |-> 1, startPage |-> 0,
   endPage |-> 0, pages |-> <<>>, requested |-> 0]

(***************************************************************************)
(* State                                                                   *)
(*   store        the records of the collection, in insertion order        *)
(*   req          the request being served (NoReq when idle)               *)
(*   pc           position of the handler: the store operation awaited     *)
(*   total        the handler's local `total`                              *)
(*   recipes      the handler's local `recipes` (getRecipes)               *)
(*   resp         the response sent for req (NoResp until sent)            *)
(*   path         execution path taken: none, direct, aggregate, listing   *)
(*   ops          store operations issued for req, in order                *)
(*   storeFailed  a store operation of req failed                          *)
(*   prev         response to the preceding identical request              *)
(*   pages        `data` of the pages 1..k fetched in sequence so far      *)
(*   parseIn, parseOut   argument and result of parseComparisonQuery       *)
(*   sent         number of responses sent for req                         *)
(*   fault        error text of the store failure that hit req ("" if none)*)
(***************************************************************************)
VARIABLES store, req, pc, total, recipes, resp, path, ops, storeFailed,
          prev, pages, parseIn, parseOut, sent, fault, conc,
          san, imp, ui, pgn

vars == <<store, req, pc, total, recipes, resp, path, ops, storeFailed,
          prev, pages, parseIn, parseOut, sent, fault, conc,
          san, imp, ui, pgn>>

\* the variables of the handler served one request at a time
seqVars == <<req, pc, total, recipes, resp, path, ops, storeFailed,
             prev, pages, parseIn, parseOut, sent, fault>>

\* the variables of the import script, of the page of the web client and of
\* its pagination bar: untouched by the request handlers
otherVars == <<san, imp, ui, pgn>>

\* requests in flight at the same time: each has its own request object,
\* position, local bindings (total, recipes) and response
NumClients == 2
Clients == 1..NumClients

IdleClient ==
  [req |-> NoReq, pc |-> "idle", total |-> 0, recipes |-> <<>>, resp |-> NoResp,
   overlap |-> FALSE]

Init ==
  /\ store \in Stores
  /\ req = NoReq
  /\ pc = "idle"
  /\ total = 0
  /\ recipes = <<>>
  /\ resp = NoResp
  /\ path = "none"
  /\ ops = <<>>
  /\ storeFailed = FALSE
  /\ prev = NoResp
  /\ pages = <<>>
  /\ parseIn = Absent
  /\ parseOut = Unset
  /\ sent = 0
  /\ fault = ""
  /\ conc = [i \in Clients |-> IdleClient]
  /\ san = SanIdle
  /\ imp = ImpIdle
  /\ ui = UiIdle
  /\ pgn = PgnIdle

\* page number of a request as echoed in the envelope
PageIndex(r) ==
  IF r.endpoint = "list" THEN ListPage(r).n
  ELSE IF IsNum(SearchPage(r)) THEN SearchPage(r).n ELSE 0

\* the response rsp is sent for request r
Deliver(r, rsp) ==
  /\ resp' = [rsp EXCEPT !.from = r.endpoint]
  /\ pc' = "done"
  /\ sent' = (IF pc \in {"idle", "done"} THEN 0 ELSE sent) + 1
  /\ pages' = IF rsp.success /\ PageIndex(r) = Len(pages) + 1
              THEN Append(pages, rsp.data) ELSE <<>>

\* the handler runs from its entry to its first await
Enter(r) ==
  /\ req' = r
  /\ total' = 0
  /\ recipes' = <<>>
  /\ storeFailed' = FALSE
  /\ fault' = ""
  /\ IF r.endpoint = "list"
     THEN /\ pc' = "L_find" /\ path' = "listing" /\ ops' = <<"find">>
          /\ resp' = NoResp /\ sent' = 0 /\ UNCHANGED pages
     ELSE IF BuildThrows(r)
     THEN /\ path' = "none" /\ ops' = <<>>
          /\ Deliver(r, Err("SyntaxError"))
     ELSE IF UsesAggregation(r)
     THEN /\ pc' = "B_count" /\ path' = "aggregate" /\ ops' = <<"aggregate count">>
          /\ resp' = NoResp /\ sent' = 0 /\ UNCHANGED pages
     ELSE /\ pc' = "A_count" /\ path' = "direct" /\ ops' = <<"countDocuments">>
          /\ resp' = NoResp /\ sent' = 0 /\ UNCHANGED pages

\* GET /api/recipes/search arrives
ReceiveSearch ==
  /\ pc = "idle"
  /\ \E r \in SearchRequests : Enter(r)
  /\ prev' = NoResp
  /\ UNCHANGED <<store, parseIn, parseOut, conc, otherVars>>

\* GET /api/recipes arrives
ReceiveList ==
  /\ pc = "idle"
  /\ \E r \in ListRequests : Enter(r)
  /\ prev' = NoResp
  /\ UNCHANGED <<store, parseIn, parseOut, conc, otherVars>>

\* error texts of a failing store operation
StoreErrors == {"connection lost", "operation timed out"}

\* the awaited store operation rejects (connection lost, server error)
StoreFailure ==
  /\ pc \in {"A_count", "A_find", "B_count", "B_page", "L_find", "L_count"}
  /\ storeFailed' = TRUE
  /\ \E e \in StoreErrors : fault' = e /\ Deliver(req, Err(e))
  /\ UNCHANGED <<store, req, total, recipes, path, ops, prev, parseIn, parseOut, conc, otherVars>>

\* await Recipe.countDocuments(query)
ACount ==
  /\ pc = "A_count"
  /\ IF HasNaNOperand(BuildQuery(req))
     THEN /\ Deliver(req, Err("CastError"))
          /\ UNCHANGED <<total, ops>>
     ELSE /\ total' = Cardinality(Matching(store, BuildQuery(req)))
          /\ pc' = "A_find"
          /\ ops' = Append(ops, "find")
          /\ UNCHANGED <<resp, pages, sent>>
  /\ UNCHANGED <<store, req, recipes, path, storeFailed, fault, prev, parseIn, parseOut, conc, otherVars>>

\* await Recipe.find(query).sort().skip().limit().lean(); res.json(...)
AFind ==
  /\ pc = "A_find"
  /\ LET k == SearchSkip(req)
         l == SearchLimit(req)
     IN IF SkipRejected(k) \/ FindLimitRejected(l)
        THEN Deliver(req, Err("MongoServerError"))
        ELSE \E ord \in SortedOrders(Matching(store, BuildQuery(req))) :
               Deliver(req, Ok(Window(ord, k.n, FindLimit(l, Len(ord))), total,
                               SearchPage(req), SearchTotalPages(total, req)))
  /\ UNCHANGED <<store, req, total, recipes, path, ops, storeFailed, fault, prev,
                 parseIn, parseOut, conc, otherVars>>

BCountAnswers ==
  /\ pc = "B_count"
  /\ total' = Cardinality(Aggregated(store, BuildQuery(req), CaloriesQuery(req)))
  /\ Deliver(req, Ok(<<>>, total', SearchPage(req), SearchTotalPages(total', req)))
  /\ UNCHANGED <<store, req, recipes, path, ops, storeFailed, fault, prev, parseIn,
                 parseOut, conc, otherVars>>

\* await Recipe.aggregate([...pipeline, { $count: 'total' }])
BCount ==
  /\ pc = "B_count"
  /\ IF PipelineFails(store, BuildQuery(req))
     THEN /\ Deliver(req, Err("ConversionFailure"))
          /\ UNCHANGED <<total, ops>>
     ELSE /\ total' = Cardinality(Aggregated(store, BuildQuery(req), CaloriesQuery(req)))
          /\ pc' = "B_page"
          /\ ops' = Append(ops, "aggregate page")
          /\ UNCHANGED <<resp, pages, sent>>
  /\ UNCHANGED <<store, req, recipes, path, storeFailed, fault, prev, parseIn, parseOut, conc, otherVars>>

\* await Recipe.aggregate([...pipeline, $sort, $skip, $limit]); res.json(...)
BPage ==
  /\ pc = "B_page"
  /\ LET k == SearchSkip(req)
         l == SearchLimit(req)
     IN IF SkipRejected(k) \/ AggLimitRejected(l)
        THEN Deliver(req, Err("MongoServerError"))
        ELSE \E ord \in SortedOrders(Aggregated(store, BuildQuery(req), CaloriesQuery(req))) :
               Deliver(req, Ok(Window(ord, k.n, l.n), total,
                               SearchPage(req), SearchTotalPages(total, req)))
  /\ UNCHANGED <<store, req, total, recipes, path, ops, storeFailed, fault, prev,
                 parseIn, parseOut, conc, otherVars>>

\* getRecipes: await Recipe.find().sort().skip().limit().lean()
LFind ==
  /\ pc = "L_find"
  /\ LET k == ListSkip(req)
         l == ListLimit(req)
     IN IF SkipRejected(k)
        THEN /\ Deliver(req, Err("MongoServerError"))
             /\ UNCHANGED <<recipes, ops>>
        ELSE /\ \E ord \in SortedOrders(RangeOf(store)) :
                  recipes' = Window(ord, k.n, FindLimit(l, Len(ord)))
             /\ pc' = "L_count"
             /\ ops' = Append(ops, "countDocuments")
             /\ UNCHANGED <<resp, pages, sent>>
  /\ UNCHANGED <<store, req, total, path, storeFailed, fault, prev, parseIn, parseOut, conc, otherVars>>

\* getRecipes: await Recipe.countDocuments(); res.json(...)
LCount ==
  /\ pc = "L_count"
  /\ total' = Len(store)
  /\ Deliver(req, Ok(recipes, Len(store), ListPage(req),
                     CeilQuot(Len(store), ListLimit(req))))
  /\ UNCHANGED <<store, req, recipes, path, ops, storeFailed, fault, prev, parseIn, parseOut, conc, otherVars>>

(***************************************************************************)
(* The client: after a response it sends the identical request again,      *)
(* asks for the following page of the same query, or goes away.            *)
(***************************************************************************)
DigitChars == <<"1", "2", "3", "4", "5", "6", "7", "8", "9">>

Repeat ==
  /\ pc = "done"
  /\ prev = NoResp
  /\ prev' = resp
  /\ Enter(req)
  /\ UNCHANGED <<store, parseIn, parseOut, conc, otherVars>>

NextPage ==
  /\ pc = "done"
  /\ resp.success
  /\ pages # <<>>
  /\ IsNum(resp.totalPages)
  /\ Len(pages) < resp.totalPages.n
  /\ Len(pages) < 9
  /\ prev' = NoResp
  /\ Enter([req EXCEPT !.page = Txt(<<DigitChars[Len(pages) + 1]>>)])
  /\ UNCHANGED <<store, parseIn, parseOut, conc, otherVars>>

\* RecipeTable.handleResetSearch: the client leaves a search that carried no
\* filter and asks the listing for the page and page size it was showing
ResetSearch ==
  /\ pc = "done"
  /\ prev = NoResp
  /\ req = [NoReq EXCEPT !.endpoint = "search", !.page = req.page, !.limit = req.limit]
  /\ prev' = resp
  /\ Enter([req EXCEPT !.endpoint = "list"])
  /\ UNCHANGED <<store, parseIn, parseOut, conc, otherVars>>

Forget ==
  /\ pc = "done"
  /\ req' = NoReq
  /\ pc' = "idle"
  /\ total' = 0
  /\ recipes' = <<>>
  /\ resp' = NoResp
  /\ path' = "none"
  /\ ops' = <<>>
  /\ storeFailed' = FALSE
  /\ prev' = NoResp
  /\ pages' = <<>>
  /\ sent' = 0
  /\ fault' = ""
  /\ UNCHANGED <<store, parseIn, parseOut, conc, otherVars>>

Next ==
  \/ ReceiveSearch
  \/ ReceiveList
  \/ StoreFailure
  \/ ACount
  \/ AFind
  \/ BCount
  \/ BPage
  \/ LFind
  \/ LCount
  \/ Repeat
  \/ NextPage
  \/ ResetSearch
  \/ Forget

Spec == Init /\ [][Next]_vars

(***************************************************************************)
(* The comparison parser on its own: every text up to MaxLen over          *)
(* ParseAlphabet, the empty text and an absent value                       *)
(***************************************************************************)
MaxLen == 3
ParseAlphabet == {">", "<", "=", "0", "5", ".", "a", "-"}

ParseInputs ==
  {Absent} \cup {Txt(t) : t \in UNION {[1..n -> ParseAlphabet] : n \in 0..MaxLen}}

InitParse ==
  /\ store = StoreScenario
  /\ req = NoReq
  /\ pc = "idle"
  /\ total = 0
  /\ recipes = <<>>
  /\ resp = NoResp
  /\ path = "none"
  /\ ops = <<>>
  /\ storeFailed = FALSE
  /\ prev = NoResp
  /\ pages = <<>>
  /\ parseIn \in ParseInputs
  /\ parseOut = Unset
  /\ sent = 0
  /\ fault = ""
  /\ conc = [i \in Clients |-> IdleClient]
  /\ san = SanIdle
  /\ imp = ImpIdle
  /\ ui = UiIdle
  /\ pgn = PgnIdle

Parse ==
  /\ parseOut = Unset
  /\ parseOut' = parseComparisonQuery(parseIn)
  /\ UNCHANGED <<store, req, pc, total, recipes, resp, path, ops, storeFailed,
                 prev, pages, parseIn, sent, fault, conc, otherVars>>

NextParse == Parse

SpecParse == InitParse /\ [][NextParse]_vars

(***************************************************************************)
(* Requests served concurrently: the handlers of NumClients requests       *)
(* interleave at their awaits, against one unchanged store.  The handler   *)
(* of client i keeps total and recipes in bindings of its own invocation.  *)
(***************************************************************************)
ConcRequests ==
  {[NoReq EXCEPT !.endpoint = "list", !.limit = Txt(<<"2">>)],
   [NoReq EXCEPT !.endpoint = "search", !.title = Txt(<<"p", "i", "e">>),
                 !.limit = Txt(<<"1">>)],
   [NoReq EXCEPT !.endpoint = "search", !.calories = Txt(<<"<", "=", "4", "0", "0">>)],
   [NoReq EXCEPT !.endpoint = "search", !.rating = Txt(<<">", "=", "a">>)],
   [NoReq EXCEPT !.endpoint = "search", !.title = Txt(<<"(">>)]}

LocalOfShared(i) == 1

\* the invocation whose bindings the handler of client i reads and writes:
\* const total, const recipes are declared inside the handler function
LocalOf(i) == i

InFlight(c) == c.pc \notin {"idle", "done"}

\* res.json / res.status(500).json for client i
\* (overlap notes that another request was in flight at that moment)
CDeliver(i, rsp) ==
  conc' = [conc EXCEPT ![i].resp = [rsp EXCEPT !.from = conc[i].req.endpoint],
                       ![i].pc = "done",
                       ![i].overlap = \E j \in Clients \ {i} : InFlight(conc[j])]

\* a request arrives while the others are wherever they are
CReceive(i) ==
  /\ conc[i].pc = "idle"
  /\ \E r \in ConcRequests :
       LET c == [IdleClient EXCEPT !.req = r]
       IN conc' = [conc EXCEPT ![i] =
            IF r.endpoint = "list" THEN [c EXCEPT !.pc = "L_find"]
            ELSE IF BuildThrows(r)
            THEN [c EXCEPT !.pc = "done",
                           !.resp = [Err("SyntaxError") EXCEPT !.from = r.endpoint]]
            ELSE IF UsesAggregation(r) THEN [c EXCEPT !.pc = "B_count"]
            ELSE [c EXCEPT !.pc = "A_count"]]
  /\ UNCHANGED <<store, seqVars, otherVars>>

CStoreFailure(i) ==
  /\ InFlight(conc[i])
  /\ \E e \in StoreErrors : CDeliver(i, Err(e))
  /\ UNCHANGED <<store, seqVars, otherVars>>

CACount(i) ==
  /\ conc[i].pc = "A_count"
  /\ IF HasNaNOperand(BuildQuery(conc[i].req))
     THEN CDeliver(i, Err("CastError"))
     ELSE conc' = [conc EXCEPT
            ![LocalOf(i)].total = Cardinality(Matching(store, BuildQuery(conc[i].req))),
            ![i].pc = "A_find"]
  /\ UNCHANGED <<store, seqVars, otherVars>>

CAFind(i) ==
  /\ conc[i].pc = "A_find"
  /\ LET r == conc[i].req
         k == SearchSkip(r)
         l == SearchLimit(r)
         t == conc[LocalOf(i)].total
     IN IF SkipRejected(k) \/ FindLimitRejected(l)
        THEN CDeliver(i, Err("MongoServerError"))
        ELSE \E ord \in SortedOrders(Matching(store, BuildQuery(r))) :
               CDeliver(i, Ok(Window(ord, k.n, FindLimit(l, Len(ord))), t,
                              SearchPage(r), SearchTotalPages(t, r)))
  /\ UNCHANGED <<store, seqVars, otherVars>>

CBCount(i) ==
  /\ conc[i].pc = "B_count"
  /\ IF PipelineFails(store, BuildQuery(conc[i].req))
     THEN CDeliver(i, Err("ConversionFailure"))
     ELSE conc' = [conc EXCEPT
            ![LocalOf(i)].total =
               Cardinality(Aggregated(store, BuildQuery(conc[i].req),
                                      CaloriesQuery(conc[i].req))),
            ![i].pc = "B_page"]
  /\ UNCHANGED <<store, seqVars, otherVars>>

CBPage(i) ==
  /\ conc[i].pc = "B_page"
  /\ LET r == conc[i].req
         k == SearchSkip(r)
         l == SearchLimit(r)
         t == conc[LocalOf(i)].total
     IN IF SkipRejected(k) \/ AggLimitRejected(l)
        THEN CDeliver(i, Err("MongoServerError"))
        ELSE \E ord \in SortedOrders(Aggregated(store, BuildQuery(r), CaloriesQuery(r))) :
               CDeliver(i, Ok(Window(ord, k.n, l.n), t,
                              SearchPage(r), SearchTotalPages(t, r)))
  /\ UNCHANGED <<store, seqVars, otherVars>>

CLFind(i) ==
  /\ conc[i].pc = "L_find"
  /\ LET k == ListSkip(conc[i].req)
         l == ListLimit(conc[i].req)
     IN IF SkipRejected(k)
        THEN CDeliver(i, Err("MongoServerError"))
        ELSE \E ord \in SortedOrders(RangeOf(store)) :
               conc' = [conc EXCEPT
                 ![LocalOf(i)].recipes = Window(ord, k.n, FindLimit(l, Len(ord))),
                 ![i].pc = "L_count"]
  /\ UNCHANGED <<store, seqVars, otherVars>>

CLCount(i) ==
  /\ conc[i].pc = "L_count"
  /\ CDeliver(i, Ok(conc[LocalOf(i)].recipes, Len(store), ListPage(conc[i].req),
                    CeilQuot(Len(store), ListLimit(conc[i].req))))
  /\ UNCHANGED <<store, seqVars, otherVars>>

\* the response has been read; the invocation and its bindings are gone
CForget(i) ==
  /\ conc[i].pc = "done"
  /\ conc' = [conc EXCEPT ![i] = IdleClient]
  /\ UNCHANGED <<store, seqVars, otherVars>>

NextConc ==
  \/ \E i \in Clients : CReceive(i)
  \/ \E i \in Clients : CStoreFailure(i)
  \/ \E i \in Clients : CACount(i)
  \/ \E i \in Clients : CAFind(i)
  \/ \E i \in Clients : CBCount(i)
  \/ \E i \in Clients : CBPage(i)
  \/ \E i \in Clients : CLFind(i)
  \/ \E i \in Clients : CLCount(i)
  \/ \E i \in Clients : CForget(i)

SpecConc == Init /\ [][NextConc]_vars

(***************************************************************************)
(* sanitizeNumericField on its own: every kind of raw value, the texts up  *)
(* to SanLen over SanAlphabet and the literals NaN and Infinity            *)
(***************************************************************************)
SanLen == 2
SanAlphabet == {"4", "0", ".", "a", " ", "-"}

RawValues ==
  {RawUndefined, RawNull, RawBoolean(TRUE), RawBoolean(FALSE)}
  \cup {RawNumber(x) : x \in {Int2Num(0), Norm(45, 1), Int2Num(-1), NaN, PosInfinity}}
  \cup {RawString(t) : t \in UNION {[1..n -> SanAlphabet] : n \in 0..SanLen}}
  \cup {RawString(NaNText), RawString(<<"I", "n", "f", "i", "n", "i", "t", "y">>)}

\* no request is being served
HandlersIdle ==
  /\ req = NoReq
  /\ pc = "idle"
  /\ total = 0
  /\ recipes = <<>>
  /\ resp = NoResp
  /\ path = "none"
  /\ ops = <<>>
  /\ storeFailed = FALSE
  /\ prev = NoResp
  /\ pages = <<>>
  /\ parseIn = Absent
  /\ parseOut = Unset
  /\ sent = 0
  /\ fault = ""
  /\ conc = [i \in Clients |-> IdleClient]

InitSanitize ==
  /\ store = StoreScenario
  /\ HandlersIdle
  /\ san \in {[SanIdle EXCEPT !.in = v] : v \in RawValues}
  /\ imp = ImpIdle
  /\ ui = UiIdle
  /\ pgn = PgnIdle

Sanitize ==
  /\ ~san.done
  /\ san' = [san EXCEPT !.out = sanitizeNumericField(san.in), !.done = TRUE]
  /\ UNCHANGED <<store, seqVars, conc, imp, ui, pgn>>

NextSanitize == Sanitize

SpecSanitize == InitSanitize /\ [][NextSanitize]_vars

(***************************************************************************)
(* importData: connect, read the file, clear the collection, insert the    *)
(* valid recipes batch by batch, count, exit.  Files hold up to MaxRecipes *)
(* recipes; batches hold BatchSize recipes (100 in the script).            *)
(***************************************************************************)
MaxRecipes == 4
BatchSize == 2

Pie == <<"P", "i", "e">>

\* recipes of a file, without their keys
FileRecipes ==
  {[title |-> RawString(Pie), rating |-> RawNumber(Norm(45, 1)),
    total_time |-> RawNumber(Int2Num(30))],
   [title |-> RawString(Pie), rating |-> RawString(NaNText),
    total_time |-> RawNull],
   [title |-> RawString(Pie), rating |-> RawString(<<>>),
    total_time |-> RawString(<<"4", "0">>)],
   [title |-> RawString(<<>>), rating |-> RawNumber(Int2Num(4)),
    total_time |-> RawNumber(Int2Num(30))],
   [title |-> RawUndefined, rating |-> RawUndefined, total_time |-> RawUndefined]}

\* Object.keys(recipesData): the recipes of the file with their keys
Keyed(f) ==
  [k \in 1..Len(f) |->
     [key |-> k, title |-> f[k].title, rating |-> f[k].rating,
      total_time |-> f[k].total_time]]

Files == UNION {[1..n -> FileRecipes] : n \in 0..MaxRecipes}

\* a recipe left in the collection by an earlier import
OldRecipe ==
  [key |-> 0, title |-> RawString(Pie), rating |-> Null, total_time |-> Null]

InitImport ==
  /\ store = StoreScenario
  /\ HandlersIdle
  /\ san = SanIdle
  /\ \E f \in Files, old \in {<<>>, <<OldRecipe>>} :
       imp = [ImpIdle EXCEPT !.file = Keyed(f), !.db = old]
  /\ ui = UiIdle
  /\ pgn = PgnIdle

BatchShort(valid, i) ==
  SubSeq(valid, i + 1,
         IF i + BatchSize - 1 < Len(valid) THEN i + BatchSize - 1 ELSE Len(valid))

\* validRecipes.slice(i, i + batchSize)
Batch(valid, i) ==
  SubSeq(valid, i + 1,
         IF i + BatchSize < Len(valid) THEN i + BatchSize ELSE Len(valid))

\* node runs the script: await connectDB()
ImportStart ==
  /\ imp.pc = "idle"
  /\ imp' = [imp EXCEPT !.pc = "connecting"]
  /\ UNCHANGED <<store, seqVars, conc, san, ui, pgn>>

\* connected; the file is read and parsed; await Recipe.deleteMany({})
ImportConnected ==
  /\ imp.pc = "connecting"
  /\ imp' = [imp EXCEPT !.pc = "deleting"]
  /\ UNCHANGED <<store, seqVars, conc, san, ui, pgn>>

\* deleteMany done; map, filter; the loop starts (or ends at once)
ImportCleared ==
  /\ imp.pc = "deleting"
  /\ LET rs == [k \in 1..Len(imp.file) |-> processRecipeData(imp.file[k])]
         valid == SelectSeq(rs, LAMBDA r : r.title # RawNull)
     IN imp' = [imp EXCEPT !.db = <<>>, !.recipes = rs, !.validRecipes = valid,
                           !.i = 0,
                           !.pc = IF 0 < Len(valid) THEN "inserting" ELSE "counting"]
  /\ UNCHANGED <<store, seqVars, conc, san, ui, pgn>>

\* await Recipe.insertMany(batch) done; i += batchSize; next turn of the loop
ImportInserted ==
  /\ imp.pc = "inserting"
  /\ LET batch == Batch(imp.validRecipes, imp.i)
         next == imp.i + BatchSize
     IN imp' = [imp EXCEPT !.db = imp.db \o batch,
                           !.batches = Append(imp.batches, batch),
                           !.i = next,
                           !.pc = IF next < Len(imp.validRecipes) THEN "inserting"
                                  ELSE "counting"]
  /\ UNCHANGED <<store, seqVars, conc, san, ui, pgn>>

\* the statistics are counted; process.exit(0)
ImportCounted ==
  /\ imp.pc = "counting"
  /\ imp' = [imp EXCEPT !.pc = "exit0"]
  /\ UNCHANGED <<store, seqVars, conc, san, ui, pgn>>

\* an awaited operation throws; an ordered insertMany leaves the documents
\* before the failing one in the collection; process.exit(1)
ImportFails ==
  /\ imp.pc \in {"connecting", "deleting", "inserting", "counting"}
  /\ \E n \in 0..BatchSize :
       /\ n = 0 \/ (imp.pc = "inserting" /\ n < Len(Batch(imp.validRecipes, imp.i)))
       /\ imp' = [imp EXCEPT !.pc = "exit1",
                             !.db = imp.db \o SubSeq(Batch(imp.validRecipes, imp.i), 1, n)]
  /\ UNCHANGED <<store, seqVars, conc, san, ui, pgn>>

NextImport ==
  \/ ImportStart
  \/ ImportConnected
  \/ ImportCleared
  \/ ImportInserted
  \/ ImportCounted
  \/ ImportFails

SpecImport == InitImport /\ [][NextImport]_vars

(***************************************************************************)
(* The Pagination component: rendered with currentPage and totalPages up   *)
(* to MaxTotalPages, then Previous or Next is clicked                      *)
(***************************************************************************)
MaxTotalPages == 8
maxVisiblePages == 5

\* let startPage = Math.max(1, currentPage - Math.floor(maxVisiblePages / 2))
FirstStartPage(currentPage) == Max(1, currentPage - (maxVisiblePages \div 2))

\* let endPage = Math.min(totalPages, startPage + maxVisiblePages - 1)
EndPage(currentPage, totalPages) ==
  Min(totalPages, FirstStartPage(currentPage) + maxVisiblePages - 1)

StartPageNotShifted(currentPage, totalPages) == FirstStartPage(currentPage)

\* startPage after the adjustment for a window cut short at the end
StartPage(currentPage, totalPages) ==
  IF EndPage(currentPage, totalPages) - FirstStartPage(currentPage) + 1 < maxVisiblePages
  THEN Max(1, EndPage(currentPage, totalPages) - maxVisiblePages + 1)
  ELSE FirstStartPage(currentPage)

\* for (let i = startPage; i <= endPage; i++) pages.push(i)
PagesFromTo(startPage, endPage) ==
  IF endPage < startPage THEN <<>>
  ELSE [i \in 1..(endPage - startPage + 1) |-> startPage + i - 1]

InitPagination ==
  /\ store = StoreScenario
  /\ HandlersIdle
  /\ san = SanIdle
  /\ imp = ImpIdle
  /\ ui = UiIdle
  /\ \E c \in 1..MaxTotalPages, t \in 0..MaxTotalPages :
       pgn = [PgnIdle EXCEPT !.currentPage = c, !.totalPages = t]

\* the component function runs
Render ==
  /\ pgn.pc = "idle"
  /\ LET startPage == StartPage(pgn.currentPage, pgn.totalPages)
         endPage == EndPage(pgn.currentPage, pgn.totalPages)
     IN pgn' = [pgn EXCEPT !.startPage = startPage, !.endPage = endPage,
                           !.pages = PagesFromTo(startPage, endPage),
                           !.pc = IF pgn.totalPages <= 1 THEN "hidden" ELSE "shown"]
  /\ UNCHANGED <<store, seqVars, conc, san, imp, ui>>

\* handlePrevious
ClickPrevious ==
  /\ pgn.pc = "shown"
  /\ pgn' = [pgn EXCEPT !.pc = "clicked",
                        !.requested = IF pgn.currentPage > 1
                                      THEN pgn.currentPage - 1 ELSE 0]
  /\ UNCHANGED <<store, seqVars, conc, san, imp, ui>>

\* handleNext
ClickNext ==
  /\ pgn.pc = "shown"
  /\ pgn' = [pgn EXCEPT !.pc = "clicked",
                        !.requested = IF pgn.currentPage < pgn.totalPages
                                      THEN pgn.currentPage + 1 ELSE 0]
  /\ UNCHANGED <<store, seqVars, conc, san, imp, ui>>

NextPagination ==
  \/ Render
  \/ ClickPrevious
  \/ ClickNext

SpecPagination == InitPagination /\ [][NextPagination]_vars

(***************************************************************************)
(* App: the user changes the page or the page size, searches or clears the *)
(* filters while earlier fetches are still in flight; the responses arrive *)
(* in any order.  A user action is the event handler, the render and the   *)
(* effect on [currentPage, itemsPerPage] that follows from it.             *)
(***************************************************************************)
MaxUiPage == 2
MaxPending == 2
UiPages == 1..MaxUiPage
UiLimits == {15, 20}
UiFilters == {"none", "pie"}

InitUi ==
  /\ store = StoreScenario
  /\ HandlersIdle
  /\ san = SanIdle
  /\ imp = ImpIdle
  /\ ui = UiIdle
  /\ pgn = PgnIdle

\* fetchRecipes as closed over the state u
fetchRecipes(u) == <<ListFetch(u.currentPage, u.itemsPerPage)>>

\* handleSearchWithPagination as closed over the state u
handleSearchWithPagination(u) ==
  IF ~u.isSearching \/ u.activeFilters = "none" THEN <<>>
  ELSE <<SearchFetch(u.activeFilters, u.currentPage, u.itemsPerPage)>>

\* the effect on [currentPage, itemsPerPage], run in the render of state u
useEffect(u) ==
  IF ~u.isSearching THEN fetchRecipes(u) ELSE handleSearchWithPagination(u)

DepsChanged(old, new) ==
  old.currentPage # new.currentPage \/ old.itemsPerPage # new.itemsPerPage

\* a handler has set the state to new and issued the fetches called; the
\* render that follows runs the effect when a dependency changed
Act(name, new, called) ==
  LET fetches == called \o (IF DepsChanged(ui, new) THEN useEffect(new) ELSE <<>>)
  IN /\ Len(ui.pending) + Len(fetches) <= MaxPending
     /\ ui' = [new EXCEPT !.pending = ui.pending \o fetches,
                          !.error = IF fetches # <<>> THEN FALSE ELSE ui.error,
                          !.last = name,
                          !.changed = DepsChanged(ui, new),
                          !.issued = fetches]
     /\ UNCHANGED <<store, seqVars, conc, san, imp, pgn>>

\* first render: the effect runs
Mount ==
  /\ ui.pc = "idle"
  /\ ui' = [ui EXCEPT !.pc = "mounted", !.pending = useEffect(ui),
                      !.last = "mount", !.issued = useEffect(ui)]
  /\ UNCHANGED <<store, seqVars, conc, san, imp, pgn>>

\* handlePageChange(page)
PageChange ==
  /\ ui.pc = "mounted"
  /\ \E page \in UiPages :
       Act("page", [ui EXCEPT !.currentPage = page], <<>>)

\* handleItemsPerPageChange(newLimit)
ItemsPerPageChange ==
  /\ ui.pc = "mounted"
  /\ \E newLimit \in UiLimits :
       Act("limit", [ui EXCEPT !.itemsPerPage = newLimit, !.currentPage = 1], <<>>)

\* handleSearch(filters): the search is called by the handler itself
Search ==
  /\ ui.pc = "mounted"
  /\ \E filters \in UiFilters :
       Act("search",
           [ui EXCEPT !.isSearching = TRUE, !.activeFilters = filters,
                      !.currentPage = 1],
           <<SearchFetch(filters, 1, ui.itemsPerPage)>>)

\* handleResetSearch: fetchRecipes is the one of the render the handler
\* belongs to, closed over the page that was current then
ClearFilters ==
  /\ ui.pc = "mounted"
  /\ Act("reset",
         [ui EXCEPT !.isSearching = FALSE, !.activeFilters = "none",
                    !.currentPage = 1],
         fetchRecipes(ui))

\* the response of a fetch in flight arrives: setRecipes, setTotalRecipes,
\* setTotalPages
Arrive ==
  /\ ui.pc = "mounted"
  /\ \E k \in 1..Len(ui.pending) :
       ui' = [ui EXCEPT !.shown = ui.pending[k],
                        !.pending = SubSeq(ui.pending, 1, k - 1)
                                    \o SubSeq(ui.pending, k + 1, Len(ui.pending))]
  /\ UNCHANGED <<store, seqVars, conc, san, imp, pgn>>

\* a fetch in flight fails: setError
FetchFails ==
  /\ ui.pc = "mounted"
  /\ \E k \in 1..Len(ui.pending) :
       ui' = [ui EXCEPT !.error = TRUE,
                        !.pending = SubSeq(ui.pending, 1, k - 1)
                                    \o SubSeq(ui.pending, k + 1, Len(ui.pending))]
  /\ UNCHANGED <<store, seqVars, conc, san, imp, pgn>>

NextUi ==
  \/ Mount
  \/ PageChange
  \/ ItemsPerPageChange
  \/ Search
  \/ ClearFilters
  \/ Arrive
  \/ FetchFails

SpecUi == InitUi /\ [][NextUi]_vars

(***************************************************************************)
(* Properties                                                              *)
(***************************************************************************)
\* the set of records the handler counts for request r
ResultSet(st, r) ==
  IF r.endpoint = "list" THEN RangeOf(st)
  ELSE IF UsesAggregation(r)
  THEN Aggregated(st, BuildQuery(r), CaloriesQuery(r))
  ELSE Matching(st, BuildQuery(r))

\* request r is answered with the success envelope when the store is up
Answers(st, r) ==
  /\ ~BuildThrows(r)
  /\ IF UsesAggregation(r) THEN ~PipelineFails(st, BuildQuery(r))
     ELSE ~HasNaNOperand(BuildQuery(r))

RECURSIVE Concat(_)
Concat(ss) == IF ss = <<>> THEN <<>> ELSE Head(ss) \o Concat(Tail(ss))

Ids(seq) == [i \in 1..Len(seq) |-> seq[i].id]

\* the pages 1..totalPages of one query have all been fetched
ScanComplete ==
  /\ pc = "done"
  /\ resp.success
  /\ IsNum(resp.totalPages)
  /\ pages # <<>>
  /\ Len(pages) = resp.totalPages.n

\* C1: the concatenation of the pages 1..totalPages of one query (same
\* filter, same limit, unchanged store) holds every matching record exactly
\* once: no duplicate, no omission.
C1_PaginationComplete ==
  ScanComplete =>
    LET all == Concat(pages)
    IN /\ \A i, j \in 1..Len(all) : i # j => all[i] # all[j]
       /\ RangeOf(all) = ResultSet(store, req)

\* C2: two identical requests against the unchanged store return the same
\* data in the same order and the same total.
C2_Deterministic ==
  (pc = "done" /\ prev.success /\ resp.success) =>
    (resp.data = prev.data /\ resp.total = prev.total)

\* the operator prefix of a filter text, longest first
RefOperator(s) ==
  CASE Len(s) >= 2 /\ s[1] = ">" /\ s[2] = "=" -> ">="
    [] Len(s) >= 2 /\ s[1] = "<" /\ s[2] = "=" -> "<="
    [] Len(s) >= 2 /\ s[1] = "=" /\ s[2] = "=" -> "=="
    [] Len(s) >= 1 /\ s[1] = ">" /\ (Len(s) = 1 \/ s[2] # "=") -> ">"
    [] Len(s) >= 1 /\ s[1] = "<" /\ (Len(s) = 1 \/ s[2] # "=") -> "<"
    [] OTHER -> ""

RefOperatorLen(s) ==
  IF RefOperator(s) \in {">=", "<=", "=="} THEN 2
  ELSE IF RefOperator(s) \in {">", "<"} THEN 1 ELSE 0

RefOperand(s) == SubSeq(s, RefOperatorLen(s) + 1, Len(s))

\* the operand text does not start with a decimal literal
Malformed(t) ==
  LET u == TrimStart(t)
      w == IF u # <<>> /\ Head(u) \in {"+", "-"} THEN Tail(u) ELSE u
  IN ~ \/ w # <<>> /\ Head(w) \in Digits
       \/ Len(w) >= 2 /\ w[1] = "." /\ w[2] \in Digits

RefParse(p) ==
  IF ~p.present \/ p.s = <<>> THEN PNull
  ELSE LET o == RefOperator(p.s)
           n == parseFloat(RefOperand(p.s))
       IN CASE o = ">=" -> [op |-> "$gte", v |-> n]
            [] o = "<=" -> [op |-> "$lte", v |-> n]
            [] o = ">" -> [op |-> "$gt", v |-> n]
            [] o = "<" -> [op |-> "$lt", v |-> n]
            [] OTHER -> [op |-> "num", v |-> n]

\* C3: parseComparisonQuery agrees with the reference parser on every text:
\* prefixes tested >=, <=, >, <, ==; the operand is the remainder parsed as a
\* decimal; no prefix gives the bare number; empty or absent gives null; a
\* malformed operand gives NaN and never null.
C3_ParserMatchesReference ==
  parseOut # Unset =>
    /\ parseOut = RefParse(parseIn)
    /\ (parseOut = PNull) <=> (~parseIn.present \/ parseIn.s = <<>>)
    /\ (parseIn.present /\ parseIn.s # <<>> /\ Malformed(RefOperand(parseIn.s)))
         => parseOut.v = NaN

C3_Witness ==
  /\ parseIn = Txt(<<">", "=", "5">>)
  /\ parseOut = [op |-> "$gte", v |-> Int2Num(5)]

\* a request of the search endpoint has been answered with the envelope
SearchAnswered == pc = "done" /\ req.endpoint = "search" /\ resp.success

\* the parameter is a bare number n or ==n with a numeric n
ExactForm(p) ==
  /\ p.present /\ p.s # <<>>
  /\ RefOperator(p.s) \in {"", "=="}
  /\ IsNum(parseFloat(RefOperand(p.s)))

ExactValue(p) == parseFloat(RefOperand(p.s))

HasValue(v, n) == IsNum(v) /\ NumEQ(v, n)

\* C4: when rating (total_time) is a bare number n or ==n, for every n
\* including 0, the search returns exactly the records whose rating
\* (total_time) equals n, among those passing the other filters.
C4_ExactMatch ==
  SearchAnswered =>
    /\ ExactForm(req.rating) =>
         /\ \A i \in 1..Len(resp.data) :
              HasValue(resp.data[i].rating, ExactValue(req.rating))
         /\ resp.total =
              Cardinality({r \in ResultSet(store, [req EXCEPT !.rating = Absent]) :
                             HasValue(r.rating, ExactValue(req.rating))})
    /\ ExactForm(req.total_time) =>
         /\ \A i \in 1..Len(resp.data) :
              HasValue(resp.data[i].total_time, ExactValue(req.total_time))
         /\ resp.total =
              Cardinality({r \in ResultSet(store, [req EXCEPT !.total_time = Absent]) :
                             HasValue(r.total_time, ExactValue(req.total_time))})

\* C5: a search request that reaches the store runs the aggregation path if
\* and only if a non-empty calories parameter is present, whatever its value.
C5_PathSelection ==
  (req.endpoint = "search" /\ ops # <<>>) =>
    /\ path \in {"direct", "aggregate"}
    /\ (path = "aggregate") <=> (req.calories.present /\ req.calories.s # <<>>)

\* the text s contains sub as a substring, ignoring case
ContainsIgnoreCase(s, sub) ==
  \E i \in 1..(Len(s) - Len(sub) + 1) :
    \A j \in 1..Len(sub) : Lower(sub[j]) = Lower(s[i + j - 1])

HasText(field, p) == field.present /\ ContainsIgnoreCase(field.s, p.s)

\* C6: a non-empty title (cuisine) value s matches exactly the records whose
\* title (cuisine) contains s literally as a substring, ignoring case.
C6_LiteralSubstring ==
  SearchAnswered =>
    /\ (req.title.present /\ req.title.s # <<>>) =>
         /\ \A i \in 1..Len(resp.data) : HasText(resp.data[i].title, req.title)
         /\ resp.total =
              Cardinality({r \in ResultSet(store, [req EXCEPT !.title = Absent]) :
                             HasText(r.title, req.title)})
    /\ (req.cuisine.present /\ req.cuisine.s # <<>>) =>
         /\ \A i \in 1..Len(resp.data) : HasText(resp.data[i].cuisine, req.cuisine)
         /\ resp.total =
              Cardinality({r \in ResultSet(store, [req EXCEPT !.cuisine = Absent]) :
                             HasText(r.cuisine, req.cuisine)})

FilterNames == {"title", "cuisine", "rating", "total_time", "calories"}
GivenFilters(r) == {f \in FilterNames : r[f].present /\ r[f].s # <<>>}

\* the request carrying the filter f of r alone
Alone(r, f) ==
  [[endpoint |-> "search", title |-> Absent, cuisine |-> Absent,
    rating |-> Absent, total_time |-> Absent, calories |-> Absent,
    page |-> Absent, limit |-> Absent] EXCEPT ![f] = r[f]]

\* records matched by every given filter of r taken alone
MatchedByEach(st, r) ==
  {x \in RangeOf(st) : \A f \in GivenFilters(r) : x \in ResultSet(st, Alone(r, f))}

ScenarioRequest ==
  [endpoint |-> "search", title |-> Absent, cuisine |-> Absent,
   rating |-> Txt(<<">", "=", "4", ".", "5">>),
   total_time |-> Txt(<<"<", "=", "4", "0">>),
   calories |-> Txt(<<"<", "=", "4", "0", "0">>),
   page |-> Absent, limit |-> Absent]

ScenarioAnswered ==
  store = StoreScenario /\ req = ScenarioRequest /\ pc = "done" /\ resp.success

C9_OnlyStoreFailureFails ==
  (pc = "done" /\ ~storeFailed) => (resp.success /\ resp.status = 200)

\* the operand of a non-empty numeric filter is not a number
Unparsable(p) ==
  p.present /\ p.s # <<>> /\ ~IsNum(parseFloat(RefOperand(p.s)))

\* C10: a rating or total_time value with an unparsable operand imposes no
\* constraint: the answer is that of the same request without the parameter.
C10_UnparsableNoConstraint ==
  /\ (pc = "done" /\ ~storeFailed /\ req.endpoint = "search"
        /\ Unparsable(req.rating)
        /\ Answers(store, [req EXCEPT !.rating = Absent])) =>
       /\ resp.success
       /\ resp.total = Cardinality(ResultSet(store, [req EXCEPT !.rating = Absent]))
  /\ (pc = "done" /\ ~storeFailed /\ req.endpoint = "search"
        /\ Unparsable(req.total_time)
        /\ Answers(store, [req EXCEPT !.total_time = Absent])) =>
       /\ resp.success
       /\ resp.total = Cardinality(ResultSet(store, [req EXCEPT !.total_time = Absent]))

\* C11: when a store operation of a request fails, the request is answered
\* exactly once, with status 500 and { success: false, message, error: the
\* underlying error text }, without data; no store operation is issued twice;
\* an answered request has the full envelope or the error, never both.
C11_StoreFailureHandling ==
  /\ storeFailed =>
       /\ pc = "done"
       /\ sent = 1
       /\ resp.status = 500
       /\ ~resp.success
       /\ resp.message = "Server Error"
       /\ resp.error = fault
       /\ ~resp.hasData
       /\ resp.data = <<>>
  /\ sent <= 1
  /\ \A i, j \in 1..Len(ops) : i # j => ops[i] # ops[j]
  /\ pc = "done" =>
       /\ sent = 1
       /\ resp.success <=> (resp.status = 200 /\ resp.hasData)
       /\ ~resp.success <=> (resp.status = 500 /\ ~resp.hasData)

C11_Witness ==
  /\ storeFailed
  /\ path = "aggregate"
  /\ ops = <<"aggregate count", "aggregate page">>
  /\ resp.error = "connection lost"

C12_WitnessEmpty ==
  pc = "done" /\ resp.success /\ path = "direct" /\ resp.total = 0

\* page and limit of a request whose paging parameters are absent or
\* positive integer literals
AllDigits(t) == t # <<>> /\ \A i \in 1..Len(t) : t[i] \in Digits

PlainPaging(r) ==
  /\ r.page.present => (AllDigits(r.page.s) /\ DigitsValue(r.page.s) >= 1)
  /\ r.limit.present => (AllDigits(r.limit.s) /\ DigitsValue(r.limit.s) >= 1)

PlainPage(r) == IF r.page.present THEN DigitsValue(r.page.s) ELSE 1

PlainLimit(r) ==
  IF r.limit.present THEN DigitsValue(r.limit.s)
  ELSE IF r.endpoint = "list" THEN 10 ELSE 15

\* number of pages of the query of r under its limit
PlainPages(st, r) ==
  (Cardinality(ResultSet(st, r)) + PlainLimit(r) - 1) \div PlainLimit(r)

\* C13: for any filter and limit L >= 1, a request for a page beyond
\* totalPages succeeds with empty data, count 0 and the total and totalPages
\* of page 1; the page number is echoed, not clamped.
C13_OutOfRangePage ==
  (pc = "done" /\ ~storeFailed /\ PlainPaging(req) /\ Answers(store, req)
     /\ PlainPage(req) > PlainPages(store, req)) =>
    /\ resp.success
    /\ resp.data = <<>>
    /\ resp.count = 0
    /\ resp.total = Cardinality(ResultSet(store, req))
    /\ resp.totalPages = Int2Num(PlainPages(store, req))
    /\ resp.page = Int2Num(PlainPage(req))

C13_Witness ==
  /\ pc = "done"
  /\ resp.success
  /\ req.page = Txt(<<"2">>)
  /\ req.limit = Txt(<<"2">>)
  /\ resp.total = 2
  /\ resp.totalPages = Int2Num(1)
  /\ resp.data = <<>>

\* a paging parameter that is absent or does not start with a number
NonNumeric(p) == ~p.present \/ ~IsNum(parseIntStr(p.s))

\* page and limit as the defaulting rule reads them: the default when absent
\* or non-numeric, the given positive integer otherwise
DefaultedPaging(r) ==
  /\ NonNumeric(r.page) \/ (AllDigits(r.page.s) /\ DigitsValue(r.page.s) >= 1)
  /\ NonNumeric(r.limit) \/ (AllDigits(r.limit.s) /\ DigitsValue(r.limit.s) >= 1)

DefaultedPage(r) == IF NonNumeric(r.page) THEN 1 ELSE DigitsValue(r.page.s)

DefaultedLimit(r) ==
  IF NonNumeric(r.limit) THEN (IF r.endpoint = "list" THEN 10 ELSE 15)
  ELSE DigitsValue(r.limit.s)

\* C14: on both endpoints a page that is absent or non-numeric is treated as
\* 1 and a limit that is absent or non-numeric as the default (10 for the
\* listing, 15 for the search); the page is echoed in the envelope as a number.
C14_PagingDefaults ==
  (pc = "done" /\ ~storeFailed /\ DefaultedPaging(req)
     /\ Answers(store, [req EXCEPT !.page = Absent, !.limit = Absent])) =>
    LET n == Cardinality(ResultSet(store, req))
        p == DefaultedPage(req)
        l == DefaultedLimit(req)
    IN /\ resp.success
       /\ resp.page = Int2Num(p)
       /\ resp.total = n
       /\ resp.totalPages = Int2Num((n + l - 1) \div l)
       /\ resp.count = Min(l, Max(0, n - (p - 1) * l))

\* the listing endpoint alone does apply the defaults
C14_ListingDefaults ==
  req.endpoint = "list" => C14_PagingDefaults

\* the page size handed to the store: .limit(limit) in getRecipes,
\* .limit(parseInt(limit)) and { $limit: parseInt(limit) } in searchRecipes
AppliedLimit(r) == IF r.endpoint = "list" THEN ListLimit(r) ELSE SearchLimit(r)

\* C15: in every success envelope totalPages = ceil(total / limit), where
\* limit is the page size that was applied to the store for this request.
C15_TotalPagesOfAppliedLimit ==
  (pc = "done" /\ resp.success /\ IsInteger(AppliedLimit(req))
     /\ AppliedLimit(req).n >= 1) =>
    resp.totalPages = Int2Num(CeilDiv(resp.total, AppliedLimit(req).n))

\* it does hold when the limit parameter is absent or written as an integer
C15_IntegerLimit ==
  (~req.limit.present \/ AllDigits(req.limit.s) \/ req.endpoint = "list")
    => C15_TotalPagesOfAppliedLimit

\* C16: in a success envelope count is the length of data and never exceeds
\* the limit; for page p and limit L it is min(L, max(0, total - (p-1)*L)).
C16_CountIsPageLength ==
  (pc = "done" /\ resp.success) =>
    /\ resp.hasData /\ resp.count = Len(resp.data)
    /\ (IsInteger(AppliedLimit(req)) /\ AppliedLimit(req).n >= 1) =>
         resp.count <= AppliedLimit(req).n
    /\ PlainPaging(req) =>
         resp.count = Min(PlainLimit(req),
                          Max(0, resp.total - (PlainPage(req) - 1) * PlainLimit(req)))

\* a partial last page: three matches, limit 2, page 2 holds one recipe
C16_Witness ==
  /\ pc = "done" /\ resp.success /\ path = "direct"
  /\ req.page = Txt(<<"2">>) /\ req.limit = Txt(<<"2">>)
  /\ resp.total = 3 /\ resp.count = 1 /\ Len(resp.data) = 1

\* in a sequence of records: no rated record after an unrated one, and the
\* rated ones in non-increasing rating order
AbsentRatingsLast(seq) ==
  \A i, j \in 1..Len(seq) :
    i < j =>
      /\ ~(~IsNum(seq[i].rating) /\ IsNum(seq[j].rating))
      /\ (IsNum(seq[i].rating) /\ IsNum(seq[j].rating)) =>
           NumLE(seq[j].rating, seq[i].rating)

\* C17: in the listing and in both search paths records with an absent rating
\* come after every rated record, on each page and across consecutive pages,
\* and rated records appear in non-increasing rating order.
C17_AbsentRatingsLast ==
  /\ (pc = "done" /\ resp.success) => AbsentRatingsLast(resp.data)
  /\ AbsentRatingsLast(Concat(pages))
  /\ \A p \in 1..Len(pages) : AbsentRatingsLast(pages[p])

\* pages 1 and 2 of a result whose last record has no rating
C17_Witness ==
  /\ pc = "done" /\ resp.success /\ store = StoreTies
  /\ Len(pages) = 2 /\ Len(pages[1]) = 2 /\ Len(pages[2]) = 2
  /\ IsNum(pages[2][1].rating) /\ ~IsNum(pages[2][2].rating)

\* the derivation as the rule words it: drop the unit tag, drop the
\* surrounding whitespace, read the rest as a decimal; 0 when absent
UnitTag == <<"k", "c", "a", "l">>

RefCaloriesText(r) == Trim(ReplaceAllEmpty(r.calories.s, UnitTag))

RefDerivable(r) == ~r.calories.present \/ AllDigits(RefCaloriesText(r))

RefCalories(r) ==
  IF r.calories.present THEN Int2Num(DigitsValue(RefCaloriesText(r)))
  ELSE Int2Num(0)

\* C18: in the computed-field path the calories value of a record is its
\* nutrients.calories text without the unit tag "kcal" and the surrounding
\* whitespace, read as a decimal, and 0 when the entry is absent; the
\* calories predicate is evaluated against that value.
C18_CaloriesDerivation ==
  /\ \A r \in RangeOf(store) : RefDerivable(r) => CaloriesValue(r) = RefCalories(r)
  /\ (pc = "done" /\ path = "aggregate" /\ ~storeFailed /\ PlainPaging(req)
        /\ \A r \in Matching(store, BuildQuery(req)) : RefDerivable(r)) =>
       /\ resp.success
       /\ resp.total = Cardinality({r \in Matching(store, BuildQuery(req)) :
                                      MatchCmp(CaloriesQuery(req), RefCalories(r))})
       /\ \A i \in 1..Len(resp.data) :
            MatchCmp(CaloriesQuery(req), RefCalories(resp.data[i]))

\* calories=<=400 on the scenario store: "380 kcal" and the absent entry match
C18_Witness ==
  /\ pc = "done" /\ path = "aggregate" /\ resp.success /\ store = StoreScenario
  /\ req.calories = Txt(<<"<", "=", "4", "0", "0">>)
  /\ resp.total = 2 /\ Len(resp.data) = 2
  /\ \E i \in 1..2 : ~resp.data[i].calories.present
  /\ \E i \in 1..2 : resp.data[i].calories = Txt(<<"3", "8", "0", " ", "k", "c", "a", "l">>)

\* C19: a search without filters matches every record, so its total is the
\* size of the store, and for the same explicit page and limit its envelope
\* (data, order, count, total, page, totalPages) is that of the listing.
C19_EmptyFilterIsListing ==
  /\ (pc = "done" /\ resp.success /\ req.endpoint = "search"
        /\ GivenFilters(req) = {}) =>
       resp.total = Cardinality(RangeOf(store))
  /\ (pc = "done" /\ resp.from = "list" /\ prev.from = "search"
        /\ ~storeFailed /\ prev.error \notin StoreErrors
        /\ req.page.present /\ req.limit.present) =>
       resp = [prev EXCEPT !.from = "list"]

\* it holds where the page and limit are positive integers and the order of
\* the store's answer is fixed by the ratings
C19_IntegerPagingNoTies ==
  (PlainPaging(req)
     /\ \A i, j \in 1..Len(store) :
          i # j => store[i].rating # store[j].rating)
    => C19_EmptyFilterIsListing

\* request r alone against store st: the store refuses its skip or limit
PagingRefused(r) ==
  IF r.endpoint = "list" THEN SkipRejected(ListSkip(r))
  ELSE \/ SkipRejected(SearchSkip(r))
       \/ IF UsesAggregation(r) THEN AggLimitRejected(SearchLimit(r))
          ELSE FindLimitRejected(SearchLimit(r))

\* the error responses request r can get when it is the only request
\* running against store st
AloneErrors(st, r) ==
  LET refused(e) == {[Err(e) EXCEPT !.from = r.endpoint]}
  IN IF r.endpoint # "list" /\ BuildThrows(r) THEN refused("SyntaxError")
     ELSE {[Err(e) EXCEPT !.from = r.endpoint] : e \in StoreErrors} \cup
          (IF r.endpoint = "list"
           THEN (IF PagingRefused(r) THEN refused("MongoServerError") ELSE {})
           ELSE IF UsesAggregation(r) /\ PipelineFails(st, BuildQuery(r))
           THEN refused("ConversionFailure")
           ELSE IF ~UsesAggregation(r) /\ HasNaNOperand(BuildQuery(r))
           THEN refused("CastError")
           ELSE IF PagingRefused(r) THEN refused("MongoServerError")
           ELSE {})

\* the success envelope of request r alone when the store hands out the
\* matching records in the order ord
AloneEnvelope(r, ord) ==
  LET n == Len(ord)
  IN [(IF r.endpoint = "list"
       THEN Ok(Window(ord, ListSkip(r).n, FindLimit(ListLimit(r), n)),
               n, ListPage(r), CeilQuot(n, ListLimit(r)))
       ELSE Ok(Window(ord, SearchSkip(r).n,
                      IF UsesAggregation(r) THEN SearchLimit(r).n
                      ELSE FindLimit(SearchLimit(r), n)),
               n, SearchPage(r), SearchTotalPages(n, r)))
        EXCEPT !.from = r.endpoint]

\* rsp is a response request r can get when it is the only request running
\* against store st
IsAloneResponse(st, r, rsp) ==
  IF rsp.success
  THEN /\ Answers(st, r) /\ ~PagingRefused(r)
       /\ \E ord \in SortedOrders(ResultSet(st, r)) : rsp = AloneEnvelope(r, ord)
  ELSE rsp \in AloneErrors(st, r)

\* served one at a time, a request gets one of these responses
AloneResponsesAreSequential ==
  pc = "done" => IsAloneResponse(store, req, resp)

\* C20: the controller keeps no state between requests: in any interleaving
\* of concurrently running listing and search requests against an unchanged
\* store, each request's response is a response it gets when it runs alone.
C20_RequestIsolation ==
  \A i \in Clients :
    conc[i].pc = "done" => IsAloneResponse(store, conc[i].req, conc[i].resp)

\* two different requests that ran at the same time have both been answered
C20_Witness ==
  /\ store = StoreTies
  /\ conc[1].pc = "done" /\ conc[2].pc = "done" /\ conc[1].overlap
  /\ conc[1].req.endpoint = "search" /\ conc[1].resp.success /\ conc[1].resp.total = 2
  /\ conc[2].req.endpoint = "search" /\ conc[2].resp.success /\ conc[2].resp.total = 4

\* every record that passes the other filters of r satisfies its calories
\* predicate, and each of them has a derived calories value
CaloriesAlwaysSatisfied(st, r) ==
  /\ UsesAggregation(r)
  /\ ~PipelineFails(st, BuildQuery(r))
  /\ \A x \in Matching(st, BuildQuery(r)) : MatchCmp(CaloriesQuery(r), CaloriesValue(x))

\* C21: the two execution paths give the same result page for the same
\* logical query: when the calories predicate is satisfied by every record
\* that passes the other filters, the envelope is one the same request
\* without the calories parameter gets.
C21_PathEquivalence ==
  (pc = "done" /\ ~storeFailed /\ path = "aggregate"
     /\ CaloriesAlwaysSatisfied(store, req)) =>
    IsAloneResponse(store, [req EXCEPT !.calories = Absent], resp)

\* the paths do agree when no numeric filter carries an unparsable operand
C21_ParsableOperands ==
  ~HasNaNOperand(BuildQuery(req)) => C21_PathEquivalence

\* C22 as stated: a search on the calories path performs exactly two store
\* round-trips one after the other, first the one that retrieves the page of
\* records, then the count, and responds after both.
C22_PageThenCount ==
  (pc = "done" /\ resp.success /\ path = "aggregate") =>
    ops = <<"aggregate page", "aggregate count">>

\* C22 amended: a search on the calories path performs its two store
\* round-trips one after the other, first the count, then the page of
\* records; the second is issued only when the first has completed, the
\* success response is sent only after both, and nothing is sent before.
C22_CountThenPage ==
  path = "aggregate" =>
    /\ pc = "B_count" => (ops = <<"aggregate count">> /\ sent = 0 /\ resp = NoResp)
    /\ pc = "B_page" =>
         (ops = <<"aggregate count", "aggregate page">> /\ sent = 0 /\ resp = NoResp)
    /\ pc = "done" =>
         /\ sent = 1
         /\ resp.success => ops = <<"aggregate count", "aggregate page">>
         /\ ops \in {<<"aggregate count">>, <<"aggregate count", "aggregate page">>}
    /\ pc \in {"B_count", "B_page", "done"}

C22_Witness ==
  /\ pc = "done" /\ resp.success /\ path = "aggregate" /\ sent = 1
  /\ ops = <<"aggregate count", "aggregate page">>
  /\ resp.total = 2 /\ resp.count = 2

\* the fields of a stored recipe
RecipeFields == {"id", "title", "cuisine", "rating", "total_time", "calories"}

\* C23: no record returned by the calories path carries the caloriesValue
\* field and each is a stored record with every field unchanged; a search
\* does not modify the store.
C23_DerivedFieldStripped ==
  /\ [](path = "aggregate" =>
          \A i \in 1..Len(resp.data) :
            /\ "caloriesValue" \notin DOMAIN resp.data[i]
            /\ DOMAIN resp.data[i] = RecipeFields
            /\ resp.data[i] \in RangeOf(store))
  /\ [][store' = store]_vars

C23_Witness ==
  /\ pc = "done" /\ resp.success /\ path = "aggregate" /\ Len(resp.data) = 2
  /\ "caloriesValue" \in DOMAIN AddFields(resp.data[1])
  /\ resp.data[1] \in RangeOf(store) /\ resp.data[2] \in RangeOf(store)

\* a text that is a decimal number, blanks around it aside
NumericText(s) ==
  LET t == Trim(s)
      u == IF HasSign(t) THEN Tail(t) ELSE t
      p == DecimalPrefix(u)
  IN u # <<>> /\ (p.ni > 0 \/ p.nf > 0) /\ p.used = Len(u)

\* the raw values for which the sanitised value has to be null
MustBeNull(value) ==
  \/ value.t \in {"null", "undefined"}
  \/ value.t = "number" /\ value.num = NaN
  \/ value.t = "string" /\ ~NumericText(value.s)

\* C24: sanitizeNumericField returns null or a finite number for every raw
\* value, and null for NaN, 'NaN', null, undefined, the empty string and any
\* non-numeric text.
C24_SanitisedIsFiniteOrNull ==
  san.done =>
    /\ san.out = Null \/ IsNum(san.out)
    /\ MustBeNull(san.in) => san.out = Null

\* what does hold: the result is never NaN, and it is null for the values
\* isNaNValue names and for texts Number() cannot read
C24_NeverNaN ==
  san.done =>
    /\ san.out # NaN
    /\ (isNaNValue(san.in) \/ (san.in.t = "string" /\ ToNumberStr(san.in.s) = NaN))
         => san.out = Null

\* the recipes of a file that have a title: present and not empty
Titled(f) == SelectSeq(f, LAMBDA r : r.title.t = "string" /\ r.title.s # <<>>)

\* C25: a successful import first removes the stored recipes and then
\* inserts, in consecutive batches of BatchSize, every processed record with
\* a non-null title exactly once, a last partial batch included, so that the
\* store holds exactly validRecipes.length records; records whose title is
\* missing or empty are never inserted.
C25_ImportComplete ==
  /\ imp.pc \in {"inserting", "counting", "exit0"} =>
       /\ \A k \in 1..Len(imp.db) : imp.db[k] # OldRecipe
       /\ \A k \in 1..Len(imp.db) :
            imp.file[imp.db[k].key].title \notin {RawUndefined, RawString(<<>>)}
       /\ \A b \in 1..Len(imp.batches) :
            /\ Len(imp.batches[b]) >= 1
            /\ b < Len(imp.batches) => Len(imp.batches[b]) = BatchSize
            /\ Len(imp.batches[b]) <= BatchSize
       /\ imp.db = Concat(imp.batches)
  /\ imp.pc = "exit0" =>
       /\ Len(imp.db) = Len(imp.validRecipes)
       /\ [k \in 1..Len(imp.db) |-> imp.db[k].key]
            = [k \in 1..Len(Titled(imp.file)) |-> Titled(imp.file)[k].key]
       /\ \A k \in 1..Len(imp.db) :
            imp.db[k] = processRecipeData(imp.file[imp.db[k].key])

\* a full batch and a partial one, a record without title left out, the old
\* record gone
C25_Witness ==
  /\ imp.pc = "exit0" /\ Len(imp.file) = 4 /\ Len(imp.db) = 3
  /\ Len(imp.batches) = 2 /\ Len(imp.batches[2]) = 1
  /\ imp.file[2].title = RawString(<<>>)

\* a calories entry that is not a decimal number once " kcal" is removed and
\* the blanks around it are trimmed
NonNumericEntry(r) ==
  r.calories.present /\ ~NumericText(ReplaceAllEmpty(r.calories.s, Kcal))

\* a record with such an entry passes the other filters of the request
NonNumericEntryPasses(st, r) ==
  /\ ~BuildThrows(r)
  /\ \E x \in Matching(st, BuildQuery(r)) : NonNumericEntry(x)

\* C26: when a search has a calories filter and a record passing the other
\* filters has a calories entry that is not a number, the request answers
\* 500 on its first round-trip and returns no data; records removed by the
\* first stage never cause this.
C26_NonNumericEntryAborts ==
  (pc = "done" /\ req.endpoint = "search" /\ TruthyParam(req.calories)
     /\ NonNumericEntryPasses(store, req)) =>
    /\ resp.status = 500 /\ ~resp.success /\ ~resp.hasData /\ resp.data = <<>>
    /\ ops = <<"aggregate count">>

\* it holds for the requests that take the calories path
C26_AbortsOnCaloriesPath ==
  (pc = "done" /\ path = "aggregate") =>
    /\ NonNumericEntryPasses(store, req) =>
         /\ resp.status = 500 /\ ~resp.success /\ ~resp.hasData /\ resp.data = <<>>
         /\ ops = <<"aggregate count">>
    /\ (~NonNumericEntryPasses(store, req) /\ ~storeFailed /\ PlainPaging(req)) =>
         resp.success

\* C27: whatever page and limit a request carries, the skip handed to the
\* store is a non-negative integer, the limit a positive integer, and the
\* skip is (effective page - 1) * effective limit.
C27_PagingArgumentsValid ==
  pc \in {"L_find", "A_find", "B_page"} =>
    LET k == IF req.endpoint = "list" THEN ListSkip(req) ELSE SearchSkip(req)
        l == AppliedLimit(req)
        p == IF req.endpoint = "list" THEN ListPage(req) ELSE SearchPage(req)
    IN /\ IsInteger(k) /\ k.n >= 0
       /\ IsInteger(l) /\ l.n >= 1
       /\ IsInteger(p) /\ k.n = (p.n - 1) * l.n

\* C30: for totalPages >= 1 and currentPage in 1..totalPages the page
\* buttons are the consecutive integers startPage..endPage with
\* 1 <= startPage <= currentPage <= endPage <= totalPages, exactly
\* min(5, totalPages) of them; Previous never requests a page below 1 and
\* Next never one above totalPages.
C30_PaginationWindow ==
  /\ (pgn.pc # "idle" /\ pgn.totalPages >= 1 /\ pgn.currentPage <= pgn.totalPages) =>
       /\ 1 <= pgn.startPage /\ pgn.startPage <= pgn.currentPage
       /\ pgn.currentPage <= pgn.endPage /\ pgn.endPage <= pgn.totalPages
       /\ Len(pgn.pages) = (IF pgn.totalPages < 5 THEN pgn.totalPages ELSE 5)
       /\ \A i \in 1..Len(pgn.pages) : pgn.pages[i] = pgn.startPage + i - 1
       /\ pgn.pages # <<>> /\ pgn.pages[Len(pgn.pages)] = pgn.endPage
  /\ (pgn.pc = "clicked" /\ pgn.totalPages >= 1 /\ pgn.currentPage <= pgn.totalPages) =>
       \/ pgn.requested = 0
       \/ /\ 1 <= pgn.requested /\ pgn.requested <= pgn.totalPages
          /\ pgn.requested \in {pgn.currentPage - 1, pgn.currentPage + 1}

\* the last page of eight: the window is shifted back to 4..8
C30_Witness ==
  /\ pgn.pc = "clicked" /\ pgn.currentPage = 8 /\ pgn.totalPages = 8
  /\ pgn.pages = <<4, 5, 6, 7, 8>> /\ pgn.requested = 7

\* the fetch for what App is set to: its page, page size and search mode
CurrentFetch(u) ==
  IF u.isSearching THEN SearchFetch(u.activeFilters, u.currentPage, u.itemsPerPage)
  ELSE ListFetch(u.currentPage, u.itemsPerPage)

\* C28: once all outstanding fetches have settled, the recipes, total and
\* totalPages on display are those of the request for the current page, page
\* size and search mode; a late response to an older request never
\* overwrites a newer one; after Clear Filters page 1 of the listing shows.
C28_ShowsLatestRequest ==
  (ui.pc = "mounted" /\ ui.pending = <<>> /\ ~ui.error) =>
    /\ ui.shown = CurrentFetch(ui)
    /\ ui.last = "reset" => ui.shown = ListFetch(1, ui.itemsPerPage)

\* C29: whenever currentPage or itemsPerPage changes exactly one fetch is
\* issued for the new page and page size, the listing when not searching
\* and the search with the active filters when searching, also after a
\* search without filters; a new search issues exactly one search request
\* for page 1.
C29_OneFetchPerChange ==
  /\ (ui.last \in {"page", "limit"} /\ ui.changed) => ui.issued = <<CurrentFetch(ui)>>
  /\ ui.last = "search" =>
       ui.issued = <<SearchFetch(ui.activeFilters, 1, ui.itemsPerPage)>>

\* what does hold: outside a search without filters a page or page-size
\* change issues exactly the one fetch
C29_OneFetchOutsideEmptySearch ==
  (ui.last \in {"page", "limit"} /\ ui.changed
     /\ ~(ui.isSearching /\ ui.activeFilters = "none"))
    => ui.issued = <<CurrentFetch(ui)>>

====
